---------------------------- MODULE Spec2Model ----------------------------
(***************************************************************************)
(* Model of the two SAT engines of the repository:                         *)
(*   - solPab.py : SATSolver, an iterative DPLL with two watched literals,  *)
(*                 a trail with decision levels and a DLIS variable pick;   *)
(*   - solver.py : dpll_iterative, a copy-on-branch DPLL with a MOM-style   *)
(*                 branching literal.                                       *)
(* Clause indices are 1-based here (Python: 0-based).  A Python value      *)
(* None/True/False of assignment[v] is the string "None"/"True"/"False".   *)
(***************************************************************************)
EXTENDS Integers, Sequences, FiniteSets, TLC

\* ----------------------------------------------------------------- bounds
NumVars      == 3   \* largest num_vars handed to solve_cnf
MaxClauseLen == 3   \* longest input clause
MaxClauses   == 4   \* longest input clause list
StabVars     == 2   \* variables of the clause lists that SpecStab extends
MaxRows      == 4   \* most rows of a puzzle file
MaxClues     == 2   \* most nonzero cells of a puzzle file
MaxBox       == 2   \* largest box size of the puzzles that are encoded and solved
SolvedClues  == 1   \* most clues of the puzzles that are encoded and solved

VARIABLES
    clauses,            \* the input clause list (SATSolver.clauses)
    num_vars,           \* the input num_vars
    assignment,         \* SATSolver.assignment
    watch_list,         \* SATSolver.watch_list : literal -> clause indices
    watched,            \* SATSolver.watched    : clause -> its watched literals
    decision_stack,     \* SATSolver.decision_stack, the trail
    decision_level,     \* SATSolver.decision_level
    propagation_queue,  \* SATSolver.propagation_queue
    satisfied_clauses,  \* SATSolver.satisfied_clauses
    search_stack,       \* local search_stack of SATSolver.solve
    pc,                 \* position inside solPab.solve_cnf / SATSolver.solve
    result,             \* verdict returned by solPab.solve_cnf
    model,              \* model returned by solPab.solve_cnf (<<>> for None)
    base_result,        \* verdict solPab.solve_cnf gave before a clause was added
                        \* ("none": the input has not been extended)
    stack,              \* solver.py: the stack of partial assignments of dpll_iterative
    dpll_assignment,    \* solver.py: the assignment dpll_iterative returned (<<>>: None)
    dpll_pc,            \* position inside solver.solve_cnf
    dpll_result,        \* verdict returned by solver.solve_cnf
    dpll_model,         \* model returned by solver.solve_cnf (<<>> for None)
    lines,              \* encoder.py: the lines of the puzzle file, each the list of
                        \* its integers (<<>>: a blank line)
    enc_pc,             \* position inside encoder.to_cnf ("idle": not called)
    enc_result,         \* "ok": to_cnf returned; "not_square", "not_perfect_square":
                        \* the ValueError it raised
    enc_clauses,        \* clauses returned by to_cnf
    enc_num_vars        \* num_vars returned by to_cnf

pabVars == <<clauses, num_vars, assignment, watch_list, watched, decision_stack,
             decision_level, propagation_queue, satisfied_clauses, search_stack,
             pc, result, model>>

dpllVars == <<stack, dpll_assignment, dpll_pc, dpll_result, dpll_model>>

encVars == <<lines, enc_pc, enc_result, enc_clauses, enc_num_vars>>

vars == <<pabVars, base_result, dpllVars, encVars>>

\* ------------------------------------------------------------ literals
Var(lit) == IF lit > 0 THEN lit ELSE -lit

BoolVal(b) == IF b THEN "True" ELSE "False"

Lits(n) == {l \in (-n)..n : l # 0}

\* _literal_value: truth value of a literal under an assignment
LiteralValue(asg, lit) ==
    IF asg[Var(lit)] = "None" THEN "None"
    ELSE IF lit > 0 THEN asg[Var(lit)]
    ELSE BoolVal(asg[Var(lit)] # "True")

\* ------------------------------------------------------ sequence helpers
\* list.remove(x): drop the first occurrence of x
RECURSIVE RemoveFirst(_, _)
RemoveFirst(s, x) ==
    IF s = <<>> THEN <<>>
    ELSE IF Head(s) = x THEN Tail(s)
    ELSE <<Head(s)>> \o RemoveFirst(Tail(s), x)

\* list.index(x): position of the first occurrence of x (0 when absent)
RECURSIVE IndexOf(_, _, _)
IndexOf(s, x, i) ==
    IF i > Len(s) THEN 0
    ELSE IF s[i] = x THEN i
    ELSE IndexOf(s, x, i + 1)

InSeq(s, x) == \E i \in 1..Len(s) : s[i] = x


\* ---------------------------------------------------- SATSolver (solPab.py)
\* The fields _propagate reads and writes travel as one record:
\*   asg = assignment, wl = watch_list, wd = watched, trail = decision_stack,
\*   queue = propagation_queue, sat = satisfied_clauses, ok = the return value.

\* variant of IsClauseSatisfied: the polarity test is dropped, any assigned
\* literal counts as a true one
IsClauseSatisfiedAnyAssigned(cl, asg, sat, c) ==
    \/ c \in sat
    \/ \E i \in 1..Len(cl[c]) : asg[Var(cl[c][i])] # "None"

\* _is_clause_satisfied: the cache hit or some literal true under asg
IsClauseSatisfied(cl, asg, sat, c) ==
    \/ c \in sat
    \/ \E i \in 1..Len(cl[c]) :
          /\ asg[Var(cl[c][i])] # "None"
          /\ asg[Var(cl[c][i])] = BoolVal(cl[c][i] > 0)

\* variant of Assign: the trail entry records level 0
AssignAtLevelZero(S, lit, level) ==
    IF S.asg[Var(lit)] # "None"
    THEN [S EXCEPT !.ok = (S.asg[Var(lit)] = BoolVal(lit > 0))]
    ELSE [S EXCEPT !.asg[Var(lit)] = BoolVal(lit > 0),
                   !.trail = Append(@, [var |-> Var(lit), value |-> BoolVal(lit > 0),
                                        level |-> 0]),
                   !.ok = TRUE]

\* _assign: make lit true at the given level; ok = FALSE on a conflict
Assign(S, lit, level) ==
    IF S.asg[Var(lit)] # "None"
    THEN [S EXCEPT !.ok = (S.asg[Var(lit)] = BoolVal(lit > 0))]
    ELSE [S EXCEPT !.asg[Var(lit)] = BoolVal(lit > 0),
                   !.trail = Append(@, [var |-> Var(lit), value |-> BoolVal(lit > 0),
                                        level |-> level]),
                   !.ok = TRUE]

\* first position of clause holding a literal that may take over the watch
RECURSIVE FindNewWatch(_, _, _, _, _)
FindNewWatch(clause, w, asg, false_literal, i) ==
    IF i > Len(clause) THEN 0
    ELSE IF /\ clause[i] # false_literal
            /\ ~InSeq(w, clause[i])
            /\ LiteralValue(asg, clause[i]) \in {"None", "True"}
         THEN i
         ELSE FindNewWatch(clause, w, asg, false_literal, i + 1)

RECURSIVE OtherLits(_, _, _, _)
\* variant of OtherLits: an unassigned other watch is not enqueued
OtherLitsNoEnqueue(S, c, other, i) ==
    IF i > Len(other) THEN [S EXCEPT !.ok = FALSE]
    ELSE IF LiteralValue(S.asg, other[i]) = "None"
         THEN [S EXCEPT !.ok = TRUE]
    ELSE IF LiteralValue(S.asg, other[i]) = "True"
         THEN [S EXCEPT !.sat = @ \cup {c}, !.ok = TRUE]
    ELSE OtherLits(S, c, other, i + 1)

\* the loop over other_lits at the end of _update_watch
OtherLits(S, c, other, i) ==
    IF i > Len(other) THEN [S EXCEPT !.ok = FALSE]
    ELSE IF LiteralValue(S.asg, other[i]) = "None"
         THEN [S EXCEPT !.queue = Append(@, other[i]), !.ok = TRUE]
    ELSE IF LiteralValue(S.asg, other[i]) = "True"
         THEN [S EXCEPT !.sat = @ \cup {c}, !.ok = TRUE]
    ELSE OtherLits(S, c, other, i + 1)

\* variant of UpdateWatch: the clause stays in the watch list of the literal
\* it stops watching
UpdateWatchKeepsOld(cl, S, c, false_literal) ==
    IF IsClauseSatisfied(cl, S.asg, S.sat, c)
    THEN [S EXCEPT !.sat = @ \cup {c}, !.ok = TRUE]
    ELSE LET j == FindNewWatch(cl[c], S.wd[c], S.asg, false_literal, 1) IN
         IF j # 0
         THEN [S EXCEPT !.wl[cl[c][j]] = Append(@, c),
                        !.wd[c][IndexOf(S.wd[c], false_literal, 1)] = cl[c][j],
                        !.ok = TRUE]
         ELSE OtherLits(S, c,
                        SelectSeq(S.wd[c], LAMBDA l : l # false_literal), 1)

\* _update_watch
UpdateWatch(cl, S, c, false_literal) ==
    IF IsClauseSatisfied(cl, S.asg, S.sat, c)
    THEN [S EXCEPT !.sat = @ \cup {c}, !.ok = TRUE]
    ELSE LET j == FindNewWatch(cl[c], S.wd[c], S.asg, false_literal, 1) IN
         IF j # 0
         THEN [S EXCEPT !.wl[false_literal] = RemoveFirst(@, c),
                        !.wl[cl[c][j]] = Append(@, c),
                        !.wd[c][IndexOf(S.wd[c], false_literal, 1)] = cl[c][j],
                        !.ok = TRUE]
         ELSE OtherLits(S, c,
                        SelectSeq(S.wd[c], LAMBDA l : l # false_literal), 1)

\* variant of ScanWatching: the loop returns after the first watching clause
ScanWatchingFirstOnly(cl, S, watching, neg_lit, i) ==
    IF i > Len(watching) THEN [S EXCEPT !.ok = TRUE]
    ELSE UpdateWatch(cl, S, watching[i], neg_lit)

\* the for loop of _propagate over the copied watch list
RECURSIVE ScanWatching(_, _, _, _, _)
ScanWatching(cl, S, watching, neg_lit, i) ==
    IF i > Len(watching) THEN [S EXCEPT !.ok = TRUE]
    ELSE LET S1 == UpdateWatch(cl, S, watching[i], neg_lit) IN
         IF ~S1.ok THEN S1
         ELSE ScanWatching(cl, S1, watching, neg_lit, i + 1)

\* variant of PropagateStep: the queue is served from its tail
PropagateStepLifo(cl, S, level) ==
    LET lit == S.queue[Len(S.queue)]
        S1  == Assign([S EXCEPT !.queue = SubSeq(@, 1, Len(@) - 1)], lit, level)
    IN  IF ~S1.ok THEN S1
        ELSE ScanWatching(cl, S1, S1.wl[-lit], -lit, 1)

\* _propagate, one pass of its while loop (the queue is not empty): popleft,
\* _assign, then the scan of the clauses watching the negation
PropagateStep(cl, S, level) ==
    LET lit == Head(S.queue)
        S1  == Assign([S EXCEPT !.queue = Tail(@)], lit, level)
    IN  IF ~S1.ok THEN S1
        ELSE ScanWatching(cl, S1, S1.wl[-lit], -lit, 1)

\* _propagate: the while loop runs until the queue is empty or a pass fails
RECURSIVE Propagate(_, _, _)
Propagate(cl, S, level) ==
    IF S.queue = <<>> THEN [S EXCEPT !.ok = TRUE]
    ELSE LET S2 == PropagateStep(cl, S, level) IN
         IF ~S2.ok THEN S2
         ELSE Propagate(cl, S2, level)

\* _all_vars_assigned
AllVarsAssigned(asg, n) == \A v \in 1..n : asg[v] # "None"

\* variant of ExtractModel: an unassigned variable gets no entry
ExtractModelAssignedOnly(asg, n) ==
    SelectSeq([v \in 1..n |-> IF asg[v] = "False" THEN -v ELSE v],
              LAMBDA x : asg[Var(x)] # "None")

\* variant of ExtractModel: an unassigned variable is emitted as -v
ExtractModelUnassignedNegative(asg, n) ==
    [v \in 1..n |-> IF asg[v] = "True" THEN v ELSE -v]

\* _extract_model
ExtractModel(asg, n) ==
    [v \in 1..n |-> IF asg[v] = "False" THEN -v ELSE v]

RECURSIVE BacktrackTrail(_, _)
\* variant of BacktrackTrail: the entries of target_level itself are popped too
BacktrackTrailInclusive(trail, target_level) ==
    IF trail # <<>> /\ trail[Len(trail)].level >= target_level
    THEN BacktrackTrail(SubSeq(trail, 1, Len(trail) - 1), target_level)
    ELSE trail

\* variant of BacktrackTrail: the loop pops one entry at most
BacktrackTrailOnePop(trail, target_level) ==
    IF trail # <<>> /\ trail[Len(trail)].level > target_level
    THEN SubSeq(trail, 1, Len(trail) - 1)
    ELSE trail

\* _backtrack: pop the trail while its top is above target_level
BacktrackTrail(trail, target_level) ==
    IF trail # <<>> /\ trail[Len(trail)].level > target_level
    THEN BacktrackTrail(SubSeq(trail, 1, Len(trail) - 1), target_level)
    ELSE trail

\* variant of BacktrackAsg: the popped variables keep their values
BacktrackAsgKeeps(asg, trail, target_level) == asg

\* _backtrack: the assignment once the popped variables are unassigned
BacktrackAsg(asg, trail, target_level) ==
    LET kept == BacktrackTrail(trail, target_level) IN
    [v \in DOMAIN asg |->
        IF \E i \in (Len(kept) + 1)..Len(trail) : trail[i].var = v
        THEN "None" ELSE asg[v]]


\* number of positions of occ holding lit
CountOcc(occ, lit) == Cardinality({i \in 1..Len(occ) : occ[i] = lit})

\* the unassigned literals of clause, in clause order
UnassignedLits(clause, asg) ==
    SelectSeq(clause, LAMBDA l : asg[Var(l)] = "None")

\* the literals _select_variable_dlis tallies in clauses lo..hi, in the order
\* it meets them
RECURSIVE DlisOccurrences(_, _, _, _, _)
DlisOccurrences(cl, asg, sat, lo, hi) ==
    IF lo > hi THEN <<>>
    ELSE IF lo = hi
    THEN (IF IsClauseSatisfied(cl, asg, sat, lo) THEN <<>>
          ELSE UnassignedLits(cl[lo], asg))
    ELSE DlisOccurrences(cl, asg, sat, lo, (lo + hi) \div 2)
         \o DlisOccurrences(cl, asg, sat, ((lo + hi) \div 2) + 1, hi)

\* max over the tally: the position in occ of the first literal, in the order
\* the literals were first met, whose number of occurrences is the largest
FirstMostFrequent(occ) ==
    LET counts == {CountOcc(occ, occ[k]) : k \in 1..Len(occ)}
        most == CHOOSE m \in counts : \A k \in counts : k <= m
    IN CHOOSE j \in 1..Len(occ) :
          /\ CountOcc(occ, occ[j]) = most
          /\ \A k \in 1..(j - 1) : CountOcc(occ, occ[k]) < most

\* best_lit of _select_variable_dlis: max() keeps the first literal, in the
\* insertion order of literal_count, whose count is the largest (0: no literal)
DlisBestLit(cl, asg, sat) ==
    LET occ == DlisOccurrences(cl, asg, sat, 1, Len(cl)) IN
    IF occ = <<>> THEN 0 ELSE occ[FirstMostFrequent(occ)]

\* _select_variable_dlis: the variable of best_lit (0 stands for None)
SelectVariableDlis(cl, asg, sat) == Var(DlisBestLit(cl, asg, sat))

\* the cache after _select_variable_dlis asked _is_clause_satisfied of each clause
DlisSatisfiedCache(cl, asg, sat) ==
    sat \cup {c \in 1..Len(cl) : IsClauseSatisfied(cl, asg, sat, c)}

\* the backtrack loop of solve (lines 304-318): pop decisions until one whose
\* second polarity is untried; R = [stack, trail, asg, level, queue, sat]
RECURSIVE Unwind(_)
\* variant of Unwind: the flipped decision is pushed back as not yet flipped
UnwindForgetsFlip(R) ==
    IF R.stack = <<>> THEN R
    ELSE LET top  == R.stack[Len(R.stack)]
             rest == SubSeq(R.stack, 1, Len(R.stack) - 1)
         IN  [stack |-> Append(rest, [lit |-> top.lit, tried_negative |-> FALSE]),
              trail |-> BacktrackTrail(R.trail, Len(rest)),
              asg   |-> BacktrackAsg(R.asg, R.trail, Len(rest)),
              level |-> Len(rest) + 1,
              queue |-> <<-top.lit>>,
              sat   |-> {}]

\* variant of Unwind: the second polarity of a decision is never tried
UnwindNoFlip(R) ==
    IF R.stack = <<>> THEN R
    ELSE Unwind([stack |-> SubSeq(R.stack, 1, Len(R.stack) - 1),
                 trail |-> BacktrackTrail(R.trail, Len(R.stack) - 1),
                 asg   |-> BacktrackAsg(R.asg, R.trail, Len(R.stack) - 1),
                 level |-> Len(R.stack) - 1,
                 queue |-> <<>>,
                 sat   |-> {}])

\* variant of Unwind: _backtrack does not clear the satisfied_clauses cache
UnwindKeepsCache(R) ==
    IF R.stack = <<>> THEN R
    ELSE LET top  == R.stack[Len(R.stack)]
             rest == SubSeq(R.stack, 1, Len(R.stack) - 1)
             R1   == [stack |-> rest,
                      trail |-> BacktrackTrail(R.trail, Len(rest)),
                      asg   |-> BacktrackAsg(R.asg, R.trail, Len(rest)),
                      level |-> Len(rest),
                      queue |-> <<>>,
                      sat   |-> R.sat]
         IN  IF ~top.tried_negative
             THEN [R1 EXCEPT !.stack = Append(rest, [lit |-> top.lit,
                                                     tried_negative |-> TRUE]),
                             !.level = Len(rest) + 1,
                             !.queue = <<-top.lit>>]
             ELSE Unwind(R1)

\* variant of Unwind: every decision is popped, tried or not
UnwindPopsAll(R) ==
    [stack |-> <<>>,
     trail |-> BacktrackTrail(R.trail, 0),
     asg   |-> BacktrackAsg(R.asg, R.trail, 0),
     level |-> 0,
     queue |-> <<>>,
     sat   |-> {}]

\* variant of Unwind: the propagation queue is not cleared before the flipped
\* literal is enqueued
UnwindKeepsQueue(R) ==
    IF R.stack = <<>> THEN R
    ELSE LET top  == R.stack[Len(R.stack)]
             rest == SubSeq(R.stack, 1, Len(R.stack) - 1)
             R1   == [stack |-> rest,
                      trail |-> BacktrackTrail(R.trail, Len(rest)),
                      asg   |-> BacktrackAsg(R.asg, R.trail, Len(rest)),
                      level |-> Len(rest),
                      queue |-> R.queue,
                      sat   |-> {}]
         IN  IF ~top.tried_negative
             THEN [R1 EXCEPT !.stack = Append(rest, [lit |-> top.lit,
                                                     tried_negative |-> TRUE]),
                             !.level = Len(rest) + 1,
                             !.queue = Append(R.queue, -top.lit)]
             ELSE Unwind(R1)

Unwind(R) ==
    IF R.stack = <<>> THEN R
    ELSE LET top  == R.stack[Len(R.stack)]
             rest == SubSeq(R.stack, 1, Len(R.stack) - 1)
             R1   == [stack |-> rest,
                      trail |-> BacktrackTrail(R.trail, Len(rest)),
                      asg   |-> BacktrackAsg(R.asg, R.trail, Len(rest)),
                      level |-> Len(rest),
                      queue |-> <<>>,
                      sat   |-> {}]
         IN  IF ~top.tried_negative
             THEN [R1 EXCEPT !.stack = Append(rest, [lit |-> top.lit,
                                                     tried_negative |-> TRUE]),
                             !.level = Len(rest) + 1,
                             !.queue = <<-top.lit>>]
             ELSE Unwind(R1)

\* ------------------------------------------------------------ the inputs
\* A clause of the pool lists distinct variables in increasing order, each
\* with a sign (the spec's well-formed clause); the empty clause is included.
RECURSIVE SortedSeq(_)
SortedSeq(V) ==
    IF V = {} THEN <<>>
    ELSE LET m == CHOOSE x \in V : \A y \in V : x <= y
         IN <<m>> \o SortedSeq(V \ {m})

ClausePool(n) ==
    UNION {{[i \in 1..Len(SortedSeq(V)) |-> sg[SortedSeq(V)[i]] * SortedSeq(V)[i]]
              : sg \in [V -> {1, -1}]}
           : V \in {W \in SUBSET (1..n) : Cardinality(W) <= MaxClauseLen}}

LitRank(lit) == 2 * Var(lit) - (IF lit > 0 THEN 1 ELSE 0)

\* a clause read as a number, first literal most significant
RECURSIVE ClauseCode(_, _, _, _)
ClauseCode(c, n, i, acc) ==
    IF i > MaxClauseLen THEN acc
    ELSE ClauseCode(c, n, i + 1,
                    acc * (2 * n + 1) + (IF i <= Len(c) THEN LitRank(c[i]) ELSE 0))

\* the pool as a list, units and longer clauses interleaved
RECURSIVE PoolSeq(_, _)
PoolSeq(P, n) ==
    IF P = {} THEN <<>>
    ELSE LET m == CHOOSE x \in P :
                    \A y \in P : ClauseCode(x, n, 1, 0) <= ClauseCode(y, n, 1, 0)
         IN <<m>> \o PoolSeq(P \ {m}, n)

\* the non-decreasing lists of k positions of a pool of P clauses (each
\* multiset of clauses once)
IndexLists(P, k) ==
    {f \in [1..k -> 1..P] : \A i \in 1..(k - 1) : f[i] <= f[i + 1]}

\* the pools of num_vars = 0, 1, .., NumVars, as a list
RECURSIVE PoolsFrom(_)
PoolsFrom(n) ==
    IF n > NumVars THEN <<>>
    ELSE <<PoolSeq(ClausePool(n), n)>> \o PoolsFrom(n + 1)

Pools == PoolsFrom(0)

\* the non-decreasing lists of at most MaxClauses positions of a pool of P clauses
FormulaIndices(P) == UNION {IndexLists(P, k) : k \in 0..MaxClauses}

\* the clause list of the pool positions f, in pool order or in reverse
FormulaOf(pool, f, reversed) ==
    [i \in 1..Len(f) |-> pool[f[IF reversed THEN Len(f) + 1 - i ELSE i]]]

\* to_cnf has not been called
NoEncoder ==
    /\ lines = <<>>
    /\ enc_pc = "idle"
    /\ enc_result = "none"
    /\ enc_clauses = <<>>
    /\ enc_num_vars = 0

\* --------------------------------------------------- solPab.py, the steps
NoSolver(n) ==
    /\ assignment = [v \in 1..n |-> "None"]
    /\ watch_list = [l \in Lits(n) |-> <<>>]
    /\ watched = <<>>
    /\ decision_stack = <<>>
    /\ decision_level = 0
    /\ propagation_queue = <<>>
    /\ satisfied_clauses = {}
    /\ search_stack = <<>>

Init ==
    /\ num_vars \in 0..NumVars
    /\ \E f \in FormulaIndices(Len(Pools[num_vars + 1])), reversed \in BOOLEAN :
           clauses = FormulaOf(Pools[num_vars + 1], f, reversed)
    /\ NoSolver(num_vars)
    /\ pc = "start"
    /\ result = "none"
    /\ model = <<>>
    /\ base_result = "none"
    /\ stack = <<>>
    /\ dpll_assignment = <<>>
    /\ dpll_pc = "start"
    /\ dpll_result = "none"
    /\ dpll_model = <<>>
    /\ NoEncoder

\* _initialize_watches: the watch list of literal l, in clause order (a clause
\* whose first two literals are both l is listed twice)
RECURSIVE InitialWatchList(_, _, _, _)
InitialWatchList(cl, l, lo, hi) ==
    IF lo > hi THEN <<>>
    ELSE IF lo = hi
    THEN (IF Len(cl[lo]) = 1 /\ cl[lo][1] = l THEN <<lo>>
          ELSE IF Len(cl[lo]) >= 2
               THEN (IF cl[lo][1] = l THEN <<lo>> ELSE <<>>)
                    \o (IF cl[lo][2] = l THEN <<lo>> ELSE <<>>)
               ELSE <<>>)
    ELSE InitialWatchList(cl, l, lo, (lo + hi) \div 2)
         \o InitialWatchList(cl, l, ((lo + hi) \div 2) + 1, hi)

\* _initialize_watches: the watched literals of clause c
InitialWatched(cl, c) ==
    IF Len(cl[c]) = 0 THEN <<>>
    ELSE IF Len(cl[c]) = 1 THEN <<cl[c][1]>>
    ELSE <<cl[c][1], cl[c][2]>>

\* _initialize_watches: the literals of the unit clauses among clauses lo..hi,
\* in clause order
RECURSIVE InitialQueue(_, _, _)
InitialQueue(cl, lo, hi) ==
    IF lo > hi THEN <<>>
    ELSE IF lo = hi THEN (IF Len(cl[lo]) = 1 THEN <<cl[lo][1]>> ELSE <<>>)
    ELSE InitialQueue(cl, lo, (lo + hi) \div 2)
         \o InitialQueue(cl, ((lo + hi) \div 2) + 1, hi)

\* variant of EmptyFormulaModel: range(1, num_vars), the last variable is lost
EmptyFormulaModelShort(n) == [v \in 1..(n - 1) |-> v]

\* solve_cnf, line 359: the model of the empty formula
EmptyFormulaModel(n) == [v \in 1..n |-> v]

\* variant of HasEmptyClause: only the first clause is looked at
HasEmptyClauseFirstOnly(cl) == cl # <<>> /\ Len(cl[1]) = 0

\* solve_cnf, lines 363-365: some clause is empty
HasEmptyClause(cl) == \E c \in 1..Len(cl) : Len(cl[c]) = 0

\* solPab.solve_cnf up to the construction of the SATSolver
SolveCnf ==
    /\ UNCHANGED <<dpllVars, base_result, encVars>>
    /\ pc = "start"
    /\ IF clauses = <<>>
       THEN /\ result' = "SAT"
            /\ model' = EmptyFormulaModel(num_vars)
            /\ pc' = "done"
            /\ UNCHANGED <<assignment, watch_list, watched, propagation_queue>>
       ELSE IF HasEmptyClause(clauses)
       THEN /\ result' = "UNSAT"
            /\ model' = <<>>
            /\ pc' = "done"
            /\ UNCHANGED <<assignment, watch_list, watched, propagation_queue>>
       ELSE /\ assignment' = [v \in 1..num_vars |-> "None"]
            /\ watch_list' = [l \in Lits(num_vars) |-> InitialWatchList(clauses, l, 1, Len(clauses))]
            /\ watched' = [c \in 1..Len(clauses) |-> InitialWatched(clauses, c)]
            /\ propagation_queue' = InitialQueue(clauses, 1, Len(clauses))
            /\ pc' = "solve"
            /\ UNCHANGED <<result, model>>
    /\ UNCHANGED <<clauses, num_vars, decision_stack, decision_level,
                   satisfied_clauses, search_stack>>

\* the solver's fields as the record _propagate works on
SolverRec ==
    [asg |-> assignment, wl |-> watch_list, wd |-> watched,
     trail |-> decision_stack, queue |-> propagation_queue,
     sat |-> satisfied_clauses, ok |-> TRUE]

SetSolver(S) ==
    /\ assignment' = S.asg
    /\ watch_list' = S.wl
    /\ watched' = S.wd
    /\ decision_stack' = S.trail
    /\ propagation_queue' = S.queue
    /\ satisfied_clauses' = S.sat

\* solve, lines 284-290: the initial propagation and the first completion test
SolveInitial ==
    /\ UNCHANGED <<dpllVars, base_result, encVars>>
    /\ pc = "solve"
    /\ LET S == Propagate(clauses, SolverRec, decision_level) IN
       /\ SetSolver(S)
       /\ IF ~S.ok
          THEN result' = "UNSAT" /\ model' = <<>> /\ pc' = "done"
          ELSE IF AllVarsAssigned(S.asg, num_vars)
          THEN result' = "SAT" /\ model' = ExtractModel(S.asg, num_vars) /\ pc' = "done"
          ELSE UNCHANGED <<result, model>> /\ pc' = "loop"
    /\ UNCHANGED <<clauses, num_vars, decision_level, search_stack>>

\* solve, line 298: _propagate at the head of the main loop
LoopPropagate ==
    /\ UNCHANGED <<dpllVars, base_result, encVars>>
    /\ pc = "loop"
    /\ LET S == Propagate(clauses, SolverRec, decision_level) IN
       /\ SetSolver(S)
       /\ pc' = IF S.ok THEN "check" ELSE "conflict"
    /\ UNCHANGED <<clauses, num_vars, decision_level, search_stack, result, model>>

\* solve, lines 299-323: conflict handling
HandleConflict ==
    /\ UNCHANGED <<dpllVars, base_result, encVars>>
    /\ pc = "conflict"
    /\ IF search_stack = <<>>
       THEN /\ result' = "UNSAT" /\ model' = <<>> /\ pc' = "done"
            /\ UNCHANGED <<assignment, decision_stack, decision_level,
                           propagation_queue, satisfied_clauses, search_stack>>
       ELSE LET R == Unwind([stack |-> search_stack, trail |-> decision_stack,
                             asg |-> assignment, level |-> decision_level,
                             queue |-> propagation_queue, sat |-> satisfied_clauses])
            IN /\ search_stack' = R.stack
               /\ decision_stack' = R.trail
               /\ assignment' = R.asg
               /\ decision_level' = R.level
               /\ propagation_queue' = R.queue
               /\ satisfied_clauses' = R.sat
               /\ IF R.stack = <<>>
                  THEN result' = "UNSAT" /\ model' = <<>> /\ pc' = "done"
                  ELSE UNCHANGED <<result, model>> /\ pc' = "loop"
    /\ UNCHANGED <<clauses, num_vars, watch_list, watched>>

\* solve, lines 325-338: the completion test, then a decision
CheckOrDecide ==
    /\ UNCHANGED <<dpllVars, base_result, encVars>>
    /\ pc = "check"
    /\ IF AllVarsAssigned(assignment, num_vars)
       THEN /\ result' = "SAT" /\ model' = ExtractModel(assignment, num_vars)
            /\ pc' = "done"
            /\ UNCHANGED <<decision_level, propagation_queue, satisfied_clauses,
                           search_stack>>
       ELSE LET var == SelectVariableDlis(clauses, assignment, satisfied_clauses) IN
            /\ satisfied_clauses' = DlisSatisfiedCache(clauses, assignment, satisfied_clauses)
            /\ IF var = 0
               THEN /\ result' = "SAT" /\ model' = ExtractModel(assignment, num_vars)
                    /\ pc' = "done"
                    /\ UNCHANGED <<decision_level, propagation_queue, search_stack>>
               ELSE /\ decision_level' = Len(search_stack) + 1
                    /\ search_stack' = Append(search_stack,
                                              [lit |-> var, tried_negative |-> FALSE])
                    /\ propagation_queue' = Append(propagation_queue, var)
                    /\ pc' = "loop"
                    /\ UNCHANGED <<result, model>>
    /\ UNCHANGED <<clauses, num_vars, assignment, watch_list, watched, decision_stack>>

NextPab == SolveCnf \/ SolveInitial \/ LoopPropagate \/ HandleConflict \/ CheckOrDecide

\* --------------------------- solPab.py, _propagate one pass at a time
\* Inside a call of _propagate (pc = "solve": the call of line 284, pc = "loop":
\* the call of line 298) while the queue is not empty: one pass of the while
\* loop.  A failing pass makes _propagate return False to solve.
PropagatePass ==
    /\ UNCHANGED <<dpllVars, base_result, encVars>>
    /\ pc \in {"solve", "loop"}
    /\ propagation_queue # <<>>
    /\ LET S == PropagateStep(clauses, SolverRec, decision_level) IN
       /\ SetSolver(S)
       /\ IF S.ok
          THEN UNCHANGED <<pc, result, model>>
          ELSE IF pc = "solve"
          THEN result' = "UNSAT" /\ model' = <<>> /\ pc' = "done"
          ELSE UNCHANGED <<result, model>> /\ pc' = "conflict"
    /\ UNCHANGED <<clauses, num_vars, decision_level, search_stack>>

\* the queue is empty: _propagate returns True to solve (lines 284-290 after
\* the initial call, line 298 inside the main loop)
PropagateReturn ==
    /\ UNCHANGED <<dpllVars, base_result, encVars>>
    /\ pc \in {"solve", "loop"}
    /\ propagation_queue = <<>>
    /\ IF pc = "loop"
       THEN UNCHANGED <<result, model>> /\ pc' = "check"
       ELSE IF AllVarsAssigned(assignment, num_vars)
       THEN result' = "SAT" /\ model' = ExtractModel(assignment, num_vars) /\ pc' = "done"
       ELSE UNCHANGED <<result, model>> /\ pc' = "loop"
    /\ UNCHANGED <<clauses, num_vars, assignment, watch_list, watched, decision_stack,
                   decision_level, propagation_queue, satisfied_clauses, search_stack>>

NextQueue == SolveCnf \/ PropagatePass \/ PropagateReturn \/ HandleConflict \/ CheckOrDecide


\* ------------------------------------------------ solver.py, the operators
\* An assignment dict is a function on 1..num_vars; "None" = key absent.

\* variant of ClauseStatus: a clause with every literal false is reported
\* "UNDEF" instead of "UNSAT"
ClauseStatusNoUnsat(clause, asg) ==
    IF \E i \in 1..Len(clause) :
          asg[Var(clause[i])] # "None" /\ asg[Var(clause[i])] = BoolVal(clause[i] > 0)
    THEN [kind |-> "SAT", lit |-> 0]
    ELSE IF Len(UnassignedLits(clause, asg)) = 1
         THEN [kind |-> "UNIT", lit |-> UnassignedLits(clause, asg)[1]]
         ELSE [kind |-> "UNDEF", lit |-> 0]

\* clause_status: [kind |-> "SAT" | "UNSAT" | "UNIT" | "UNDEF", lit |-> the unit literal]
ClauseStatus(clause, asg) ==
    IF \E i \in 1..Len(clause) :
          asg[Var(clause[i])] # "None" /\ asg[Var(clause[i])] = BoolVal(clause[i] > 0)
    THEN [kind |-> "SAT", lit |-> 0]
    ELSE LET unassigned_lits == UnassignedLits(clause, asg) IN
         IF unassigned_lits = <<>> THEN [kind |-> "UNSAT", lit |-> 0]
         ELSE IF Len(unassigned_lits) = 1 THEN [kind |-> "UNIT", lit |-> unassigned_lits[1]]
         ELSE [kind |-> "UNDEF", lit |-> 0]

\* the first clause among clauses lo..hi that unit_propagate acts upon (0: none)
RECURSIVE FirstUnitOrUnsat(_, _, _, _)
FirstUnitOrUnsat(cl, asg, lo, hi) ==
    IF lo > hi THEN 0
    ELSE IF lo = hi
    THEN (IF ClauseStatus(cl[lo], asg).kind \in {"UNSAT", "UNIT"} THEN lo ELSE 0)
    ELSE LET c == FirstUnitOrUnsat(cl, asg, lo, (lo + hi) \div 2) IN
         IF c # 0 THEN c
         ELSE FirstUnitOrUnsat(cl, asg, ((lo + hi) \div 2) + 1, hi)

\* unit_propagate: [ok |-> the return value, asg |-> the assignment it leaves]
RECURSIVE UnitPropagate(_, _)
UnitPropagate(cl, asg) ==
    LET c == FirstUnitOrUnsat(cl, asg, 1, Len(cl)) IN
    IF c = 0 THEN [ok |-> TRUE, asg |-> asg]
    ELSE LET status == ClauseStatus(cl[c], asg) IN
         IF status.kind = "UNSAT" THEN [ok |-> FALSE, asg |-> asg]
         ELSE IF asg[Var(status.lit)] # "None"
              THEN IF asg[Var(status.lit)] # BoolVal(status.lit > 0)
                   THEN [ok |-> FALSE, asg |-> asg]
                   ELSE [ok |-> TRUE, asg |-> asg]
              ELSE UnitPropagate(cl, [asg EXCEPT ![Var(status.lit)] = BoolVal(status.lit > 0)])

\* choose_branch_literal: the clauses it considers (neither SAT nor UNSAT)
OpenClause(clause, asg) ==
    /\ ClauseStatus(clause, asg).kind \notin {"SAT", "UNSAT"}
    /\ UnassignedLits(clause, asg) # <<>>

\* choose_branch_literal, step 1: min_len (0 stands for None)
MinLen(cl, asg) ==
    LET lens == {Len(UnassignedLits(cl[c], asg)) :
                   c \in {d \in 1..Len(cl) : OpenClause(cl[d], asg)}}
    IN IF lens = {} THEN 0 ELSE CHOOSE m \in lens : \A k \in lens : m <= k

\* choose_branch_literal, step 2: the literals counted in clauses lo..hi, in
\* the order met
RECURSIVE MomOccurrences(_, _, _, _, _)
MomOccurrences(cl, asg, min_len, lo, hi) ==
    IF lo > hi THEN <<>>
    ELSE IF lo = hi
    THEN (IF OpenClause(cl[lo], asg) /\ Len(UnassignedLits(cl[lo], asg)) = min_len
          THEN UnassignedLits(cl[lo], asg) ELSE <<>>)
    ELSE MomOccurrences(cl, asg, min_len, lo, (lo + hi) \div 2)
         \o MomOccurrences(cl, asg, min_len, ((lo + hi) \div 2) + 1, hi)

\* variant of ChooseBranchLiteral: the first literal counted is returned,
\* whatever its count
ChooseBranchLiteralFirstMet(cl, asg) ==
    LET min_len == MinLen(cl, asg) IN
    IF min_len = 0 THEN 0
    ELSE LET occ == MomOccurrences(cl, asg, min_len, 1, Len(cl)) IN
         IF occ = <<>> THEN 0 ELSE occ[1]

\* choose_branch_literal: max(counts, key=counts.get) keeps the first key, in
\* insertion order, with the largest count (0 stands for None)
ChooseBranchLiteral(cl, asg) ==
    LET min_len == MinLen(cl, asg) IN
    IF min_len = 0 THEN 0
    ELSE LET occ == MomOccurrences(cl, asg, min_len, 1, Len(cl)) IN
         IF occ = <<>> THEN 0 ELSE occ[FirstMostFrequent(occ)]

\* variant of AllSat: a clause that is not yet satisfied no longer clears all_sat
AllSatNoUnsat(cl, asg) == \A c \in 1..Len(cl) : ClauseStatus(cl[c], asg).kind # "UNSAT"

\* dpll_iterative, lines 40-48: all_sat
AllSat(cl, asg) == \A c \in 1..Len(cl) : ClauseStatus(cl[c], asg).kind = "SAT"

\* solve_cnf, lines 17-23: a variable missing from the dict is reported false
DpllModel(asg, n) ==
    [v \in 1..n |-> IF asg[v] = "True" THEN v ELSE -v]

\* ---------------------------------------------------- solver.py, the steps
\* solve_cnf line 10-12 and dpll_iterative line 29: stack = [dict()]
DpllStart ==
    /\ dpll_pc = "start"
    /\ stack' = <<[v \in 1..num_vars |-> "None"]>>
    /\ dpll_pc' = "loop"
    /\ UNCHANGED <<dpll_assignment, dpll_result, dpll_model, pabVars, base_result, encVars>>

\* one iteration of the while loop of dpll_iterative (lines 31-71); a return
\* inside it carries on through solve_cnf lines 14-23
DpllIterate ==
    /\ dpll_pc = "loop"
    /\ stack # <<>>
    /\ LET popped == SubSeq(stack, 1, Len(stack) - 1)
           up     == UnitPropagate(clauses, stack[Len(stack)])
       IN  IF ~up.ok
           THEN /\ stack' = popped
                /\ UNCHANGED <<dpll_pc, dpll_assignment, dpll_result, dpll_model>>
           ELSE IF AllSat(clauses, up.asg)
           THEN /\ stack' = popped
                /\ dpll_assignment' = up.asg
                /\ dpll_result' = "SAT"
                /\ dpll_model' = DpllModel(up.asg, num_vars)
                /\ dpll_pc' = "done"
           ELSE LET lit == ChooseBranchLiteral(clauses, up.asg) IN
                IF lit = 0
                THEN /\ stack' = popped
                     /\ dpll_assignment' = up.asg
                     /\ dpll_result' = "SAT"
                     /\ dpll_model' = DpllModel(up.asg, num_vars)
                     /\ dpll_pc' = "done"
                ELSE /\ stack' = popped
                          \o <<[up.asg EXCEPT ![Var(lit)] = BoolVal(~(lit > 0))],
                               [up.asg EXCEPT ![Var(lit)] = BoolVal(lit > 0)]>>
                     /\ UNCHANGED <<dpll_pc, dpll_assignment, dpll_result, dpll_model>>
    /\ UNCHANGED <<pabVars, base_result, encVars>>

\* dpll_iterative line 74 and solve_cnf lines 14-15: the stack ran empty
DpllExhausted ==
    /\ dpll_pc = "loop"
    /\ stack = <<>>
    /\ dpll_assignment' = <<>>
    /\ dpll_result' = "UNSAT"
    /\ dpll_model' = <<>>
    /\ dpll_pc' = "done"
    /\ UNCHANGED <<stack, pabVars, base_result, encVars>>

NextDpll == DpllStart \/ DpllIterate \/ DpllExhausted

\* ------------------------------------------------------------ encoder.py
\* var(r, c, v, N)
EncVar(r, c, v, N) == r * N * N + c * N + v

\* the lists of a list of lists, one after the other (clauses.extend)
RECURSIVE Flatten(_, _)
Flatten(ss, i) == IF i > Len(ss) THEN <<>> ELSE ss[i] \o Flatten(ss, i + 1)

\* variant of AtMostOnePairwise: only literals next to each other are paired
AtMostOneNeighbours(literals) ==
    [i \in 1..(Len(literals) - 1) |-> <<-literals[i], -literals[i + 1]>>]

\* at_most_one_pairwise: [-literals[i], -literals[j]] for i < j, in the order
\* of the two loops
AtMostOnePairwise(literals) ==
    Flatten([i \in 1..Len(literals) |->
                [d \in 1..(Len(literals) - i) |-> <<-literals[i], -literals[i + d]>>]], 1)

\* exactly_one
ExactlyOne(literals) == <<literals>> \o AtMostOnePairwise(literals)

\* int(math.sqrt(N))
IntSqrt(N) == CHOOSE b \in 0..N : b * b <= N /\ N < (b + 1) * (b + 1)

\* the grid read from the file: blank lines are skipped
ParseGrid(ls) == SelectSeq(ls, LAMBDA row : row # <<>>)

\* (1) exactly one value per cell
CellClauses(N) ==
    Flatten([k \in 1..(N * N) |->
                ExactlyOne([v \in 1..N |-> EncVar((k - 1) \div N, (k - 1) % N, v, N)])], 1)

\* (2) each value exactly once per row
RowClauses(N) ==
    Flatten([k \in 1..(N * N) |->
                ExactlyOne([c \in 1..N |->
                               EncVar((k - 1) \div N, c - 1, ((k - 1) % N) + 1, N)])], 1)

\* (3) each value exactly once per column
ColClauses(N) ==
    Flatten([k \in 1..(N * N) |->
                ExactlyOne([r \in 1..N |->
                               EncVar(r - 1, (k - 1) \div N, ((k - 1) % N) + 1, N)])], 1)

\* (4) each value exactly once per box
BoxClauses(N, box_size) ==
    Flatten([k \in 1..(box_size * box_size * N) |->
                LET box_row == (k - 1) \div (box_size * N)
                    box_col == ((k - 1) \div N) % box_size
                    v == ((k - 1) % N) + 1
                IN ExactlyOne([j \in 1..(box_size * box_size) |->
                                  EncVar(box_row * box_size + ((j - 1) \div box_size),
                                         box_col * box_size + ((j - 1) % box_size), v, N)])], 1)

\* variant of NeighbourClauses: only v in the cell and v + 1 in the neighbour
\* is excluded
NeighbourClausesAscending(r, c, r2, c2, N) ==
    [v \in 1..(N - 1) |-> <<-EncVar(r, c, v, N), -EncVar(r2, c2, v + 1, N)>>]

\* (5) the clauses of cell (r, c) with the neighbour (r2, c2), for v = 1..N-1
NeighbourClauses(r, c, r2, c2, N) ==
    Flatten([v \in 1..(N - 1) |->
                << <<-EncVar(r, c, v, N), -EncVar(r2, c2, v + 1, N)>>,
                   <<-EncVar(r, c, v + 1, N), -EncVar(r2, c2, v, N)>> >>], 1)

\* variant of NonConsecutiveClauses: the left and the top neighbour are
\* visited too
NonConsecutiveBothWays(N) ==
    Flatten([k \in 1..(N * N) |->
                LET r == (k - 1) \div N
                    c == (k - 1) % N
                IN (IF c + 1 < N THEN NeighbourClauses(r, c, r, c + 1, N) ELSE <<>>)
                   \o (IF r + 1 < N THEN NeighbourClauses(r, c, r + 1, c, N) ELSE <<>>)
                   \o (IF c >= 1 THEN NeighbourClauses(r, c, r, c - 1, N) ELSE <<>>)
                   \o (IF r >= 1 THEN NeighbourClauses(r, c, r - 1, c, N) ELSE <<>>)], 1)

\* (5) non-consecutive: the right and the bottom neighbour of every cell
NonConsecutiveClauses(N) ==
    Flatten([k \in 1..(N * N) |->
                LET r == (k - 1) \div N
                    c == (k - 1) % N
                IN (IF c + 1 < N THEN NeighbourClauses(r, c, r, c + 1, N) ELSE <<>>)
                   \o (IF r + 1 < N THEN NeighbourClauses(r, c, r + 1, c, N) ELSE <<>>)], 1)

\* variant of ClueClauses: rows and columns counted from 1
ClueClausesOneBased(grid, N) ==
    Flatten([k \in 1..(N * N) |->
                LET r == (k - 1) \div N
                    c == (k - 1) % N
                IN IF grid[r + 1][c + 1] # 0
                   THEN << <<EncVar(r + 1, c + 1, grid[r + 1][c + 1], N)>> >>
                   ELSE <<>>], 1)

\* (6) clues: a unit clause for every nonzero cell
ClueClauses(grid, N) ==
    Flatten([k \in 1..(N * N) |->
                LET r == (k - 1) \div N
                    c == (k - 1) % N
                IN IF grid[r + 1][c + 1] # 0
                   THEN << <<EncVar(r, c, grid[r + 1][c + 1], N)>> >>
                   ELSE <<>>], 1)

\* variant of IsSquare: only the first row is measured
IsSquareFirstRow(grid) == Len(grid) = 0 \/ Len(grid[1]) = Len(grid)

\* the grid is square
IsSquare(grid) == \A r \in 1..Len(grid) : Len(grid[r]) = Len(grid)

\* the clauses of an N x N grid, N a perfect square
GridClauses(grid) ==
    LET N == Len(grid) IN
    CellClauses(N) \o RowClauses(N) \o ColClauses(N) \o BoxClauses(N, IntSqrt(N))
        \o NonConsecutiveClauses(N) \o ClueClauses(grid, N)

\* to_cnf
ToCnf ==
    /\ enc_pc = "start"
    /\ enc_pc' = "done"
    /\ LET grid == ParseGrid(lines)
           N == Len(grid)
       IN IF ~IsSquare(grid)
          THEN enc_result' = "not_square" /\ UNCHANGED <<enc_clauses, enc_num_vars>>
          ELSE IF IntSqrt(N) * IntSqrt(N) # N
          THEN enc_result' = "not_perfect_square" /\ UNCHANGED <<enc_clauses, enc_num_vars>>
          ELSE /\ enc_result' = "ok"
               /\ enc_clauses' = GridClauses(grid)
               /\ enc_num_vars' = N * N * N
    /\ UNCHANGED <<lines, pabVars, base_result, dpllVars>>

\* ------------------------------------------------------ specifications
\* solPab.solve_cnf alone
Next == NextPab

Spec == Init /\ [][Next]_vars

\* solPab.solve_cnf alone, _propagate one pass at a time
SpecQueue == Init /\ [][NextQueue]_vars

\* solver.solve_cnf alone
SpecDpll == Init /\ [][NextDpll]_vars

\* both engines on the same input, solPab first
NextBoth ==
    \/ NextPab
    \/ (pc = "done" /\ DpllStart)
    \/ (pc = "done" /\ DpllIterate)
    \/ (pc = "done" /\ DpllExhausted)

SpecBoth == Init /\ [][NextBoth]_vars


\* --------------------------------------- solPab.solve_cnf on a list and on
\* the list with one more clause
InsertAt(s, i, c) == SubSeq(s, 1, i - 1) \o <<c>> \o SubSeq(s, i, Len(s))

InitStab ==
    /\ num_vars = NumVars
    /\ \E f \in FormulaIndices(Len(Pools[StabVars + 1])), reversed \in BOOLEAN :
           clauses = FormulaOf(Pools[StabVars + 1], f, reversed)
    /\ NoSolver(num_vars)
    /\ pc = "start"
    /\ result = "none"
    /\ model = <<>>
    /\ base_result = "none"
    /\ stack = <<>>
    /\ dpll_assignment = <<>>
    /\ dpll_pc = "start"
    /\ dpll_result = "none"
    /\ dpll_model = <<>>
    /\ NoEncoder

\* after an UNSAT verdict: solve_cnf is called again on the list with one more
\* clause over 1..num_vars, inserted at any position
SolveExtended ==
    /\ pc = "done"
    /\ base_result = "none"
    /\ result = "UNSAT"
    /\ \E j \in 1..Len(Pools[num_vars + 1]), i \in 1..(Len(clauses) + 1) :
           clauses' = InsertAt(clauses, i, Pools[num_vars + 1][j])
    /\ base_result' = result
    /\ assignment' = [v \in 1..num_vars |-> "None"]
    /\ watch_list' = [l \in Lits(num_vars) |-> <<>>]
    /\ watched' = <<>>
    /\ decision_stack' = <<>>
    /\ decision_level' = 0
    /\ propagation_queue' = <<>>
    /\ satisfied_clauses' = {}
    /\ search_stack' = <<>>
    /\ pc' = "start"
    /\ result' = "none"
    /\ model' = <<>>
    /\ UNCHANGED <<num_vars, dpllVars, encVars>>

NextStab == NextPab \/ SolveExtended

SpecStab == InitStab /\ [][NextStab]_vars


\* ------------------------------------------ encoder.to_cnf on a puzzle file
\* the row lengths of a file of n rows: all n, all n - 1, all n + 1, or one
\* row one shorter or one longer than n (a row of the grid is never empty)
RowLengths(n) ==
    {lens \in [1..n -> {m \in {n - 1, n, n + 1} : m >= 1}] :
        \/ \A r \in 1..n : lens[r] = lens[1]
        \/ Cardinality({r \in 1..n : lens[r] # n}) = 1}

\* the values of a nonzero cell: 1..n, and -1 and n + 1 outside that range
ClueValues(n) == ((-1)..(n + 1)) \ {0}

\* the rows of the given lengths, zero but for the cells <<r, c, v>> of clues
GridOf(lens, clues) ==
    [r \in 1..Len(lens) |->
        [c \in 1..lens[r] |->
            IF \E q \in clues : q[1] = r /\ q[2] = c
            THEN (CHOOSE q \in clues : q[1] = r /\ q[2] = c)[3]
            ELSE 0]]

\* the file's lines: the rows, with a blank line at position blank (0: none)
WithBlank(rows, blank) == IF blank = 0 THEN rows ELSE InsertAt(rows, blank, <<>>)

\* the solvers are not called
NoSolve ==
    /\ clauses = <<>>
    /\ num_vars = 0
    /\ NoSolver(0)
    /\ pc = "idle"
    /\ result = "none"
    /\ model = <<>>
    /\ base_result = "none"
    /\ stack = <<>>
    /\ dpll_assignment = <<>>
    /\ dpll_pc = "idle"
    /\ dpll_result = "none"
    /\ dpll_model = <<>>

\* square files of up to MaxClues nonzero cells, and files of every shape with
\* at most one nonzero cell and at most one blank line
InitEnc ==
    /\ \E n \in 0..MaxRows :
          \/ \E k \in 0..MaxClues :
                \E f \in [1..k -> 1..(n * n)], vals \in [1..k -> ClueValues(n)] :
                    /\ \A i \in 1..(k - 1) : f[i] < f[i + 1]
                    /\ lines = GridOf([r \in 1..n |-> n],
                                      {<<((f[i] - 1) \div n) + 1, ((f[i] - 1) % n) + 1, vals[i]>>
                                          : i \in 1..k})
          \/ \E lens \in RowLengths(n), blank \in 0..(n + 1) :
                \/ lines = WithBlank(GridOf(lens, {}), blank)
                \/ \E r \in 1..n : \E c \in 1..lens[r] : \E v \in ClueValues(n) :
                      lines = WithBlank(GridOf(lens, {<<r, c, v>>}), blank)
    /\ enc_pc = "start"
    /\ enc_result = "none"
    /\ enc_clauses = <<>>
    /\ enc_num_vars = 0
    /\ NoSolve

NextEnc == ToCnf

SpecEnc == InitEnc /\ [][NextEnc]_vars

\* ------------------------------- a puzzle encoded by to_cnf and then solved
\* the clauses and num_vars that to_cnf returned are handed to both solve_cnf
SolveEncoded ==
    /\ enc_pc = "done"
    /\ enc_result = "ok"
    /\ pc = "idle"
    /\ clauses' = enc_clauses
    /\ num_vars' = enc_num_vars
    /\ assignment' = [v \in 1..enc_num_vars |-> "None"]
    /\ watch_list' = [l \in Lits(enc_num_vars) |-> <<>>]
    /\ pc' = "start"
    /\ dpll_pc' = "start"
    /\ UNCHANGED <<watched, decision_stack, decision_level, propagation_queue,
                   satisfied_clauses, search_stack, result, model, base_result,
                   stack, dpll_assignment, dpll_result, dpll_model, encVars>>

\* N x N puzzles, N = 1, 4, .., MaxBox^2, of at most SolvedClues clues in 1..N,
\* the clues in the first row
InitSudoku ==
    /\ \E b \in 1..MaxBox : \E k \in 0..SolvedClues :
          \E f \in [1..k -> 1..(b * b)], vals \in [1..k -> 1..(b * b)] :
              /\ \A i \in 1..(k - 1) : f[i] < f[i + 1]
              /\ lines = GridOf([r \in 1..(b * b) |-> b * b],
                                {<<((f[i] - 1) \div (b * b)) + 1, ((f[i] - 1) % (b * b)) + 1,
                                   vals[i]>> : i \in 1..k})
    /\ enc_pc = "start"
    /\ enc_result = "none"
    /\ enc_clauses = <<>>
    /\ enc_num_vars = 0
    /\ NoSolve

NextSudoku == ToCnf \/ SolveEncoded \/ NextBoth

SpecSudoku == InitSudoku /\ [][NextSudoku]_vars

\* ------------------------------------------------------------ the claims
\* the clause has a literal that the model (a list of +v / -v) makes true
SatisfiedBy(m, clause) == \E i \in 1..Len(clause) : m[Var(clause[i])] = clause[i]

\* some total assignment of 1..n makes a literal of every clause true
Satisfiable(cl, n) ==
    \E a \in [1..n -> {1, -1}] :
        \A c \in 1..Len(cl) : \E i \in 1..Len(cl[c]) : a[Var(cl[c][i])] * Var(cl[c][i]) = cl[c][i]

\* a decision of the search stack is on its second polarity
Flipped == \E k \in 1..Len(search_stack) : search_stack[k].tried_negative

\* C1: whenever SATSolver.solve returns ("SAT", model), every input clause
\* contains a literal that the returned model makes true.
C1_ModelSound ==
    (pc = "done" /\ result = "SAT") =>
        \A c \in 1..Len(clauses) : SatisfiedBy(model, clauses[c])

\* C1 witness: SAT returned by the search, after a conflict flipped a decision,
\* on an input with a three-literal clause
C1_Witness ==
    /\ pc = "done" /\ result = "SAT" /\ Flipped
    /\ \E c \in 1..Len(clauses) : Len(clauses[c]) = 3
    /\ \A c \in 1..Len(clauses) : SatisfiedBy(model, clauses[c])

\* C2: SATSolver.solve returns UNSAT only when no total assignment of
\* 1..num_vars satisfies every clause, and every satisfiable input gets SAT
\* (so {[1],[-1]} is UNSAT).
C2_VerdictComplete ==
    pc = "done" => (result = "UNSAT" <=> ~Satisfiable(clauses, num_vars))

\* C2 witness: UNSAT on an input without unit or empty clause, so that only the
\* exhausted search tree can have produced it
C2_Witness ==
    /\ pc = "done" /\ result = "UNSAT"
    /\ clauses # <<>>
    /\ \A c \in 1..Len(clauses) : Len(clauses[c]) >= 2

RECURSIVE Pow2(_)
Pow2(k) == IF k = 0 THEN 1 ELSE 2 * Pow2(k - 1)

\* the leaves of the binary search tree over num_vars variables that solve may
\* still visit: the subtree under the current node, and the second branch of
\* every decision not yet flipped
RECURSIVE OpenLeaves(_, _)
OpenLeaves(st, k) ==
    IF k > Len(st) THEN Pow2(num_vars - Len(st))
    ELSE (IF st[k].tried_negative THEN 0 ELSE Pow2(num_vars - k)) + OpenLeaves(st, k + 1)

\* a natural number that every step of solve_cnf lowers
Rank ==
    LET top == (Pow2(num_vars + 1) * (num_vars + 1) + num_vars) * 3 + 3 IN
    CASE pc = "start" -> top + 2
      [] pc = "solve" -> top + 1
      [] pc = "done"  -> 0
      [] OTHER -> (OpenLeaves(search_stack, 1) * (num_vars + 1)
                   + (num_vars - Len(search_stack))) * 3
                  + (IF pc = "loop" THEN 2 ELSE 1)

\* C3: for every clause list SATSolver.solve eventually returns a verdict, SAT
\* or UNSAT; propagate, conflict and decide steps do not go on forever.  Stated
\* as: while no verdict is returned the call is at a position that has a step,
\* and every step lowers the natural number Rank, so no run takes more than
\* Rank steps and a finished run holds a verdict.
C3_Terminates ==
    /\ [](/\ Rank \in Nat
          /\ pc \in {"start", "solve", "loop", "check", "conflict", "done"}
          /\ (pc = "done" <=> result \in {"SAT", "UNSAT"}))
    /\ [][Rank' < Rank]_vars

\* C3 witness: a verdict reached with two decisions on the search stack, one
\* of them flipped by a conflict
C3_Witness == pc = "done" /\ Len(search_stack) >= 2 /\ Flipped

\* C4: whenever solver.solve_cnf returns ("SAT", model), every input clause has
\* a literal the model makes true, and a variable absent from the final
\* assignment dict is emitted as -v.
C4_DpllModelSound ==
    (dpll_pc = "done" /\ dpll_result = "SAT") =>
        /\ \A c \in 1..Len(clauses) : SatisfiedBy(dpll_model, clauses[c])
        /\ \A v \in 1..num_vars : dpll_assignment[v] = "None" => dpll_model[v] = -v

\* C4 witness: SAT found on a branch (the other branch is still stacked) with a
\* variable left out of the assignment
C4_Witness ==
    /\ dpll_pc = "done" /\ dpll_result = "SAT" /\ stack # <<>>
    /\ \E v \in 1..num_vars : dpll_assignment[v] = "None" /\ dpll_model[v] = -v

\* C5: on every clause list solver.solve_cnf and solPab.solve_cnf return the
\* same SAT/UNSAT verdict.
C5_SameVerdict ==
    (pc = "done" /\ dpll_pc = "done") => result = dpll_result

\* C5 witness: both engines answered SAT with different models, solPab after
\* flipping a decision
C5_Witness ==
    /\ pc = "done" /\ dpll_pc = "done" /\ result = "SAT" /\ dpll_result = "SAT"
    /\ model # dpll_model /\ Flipped

\* a model lists exactly n entries, the v-th being +v or -v
TotalModel(m, n) == DOMAIN m = 1..n /\ \A v \in 1..n : m[v] \in {v, -v}

\* C6: on every SAT verdict, the empty-formula shortcut included, the model has
\* exactly num_vars entries and its i-th entry is +i or -i, for both engines.
C6_ModelComplete ==
    /\ (pc = "done" /\ result = "SAT") => TotalModel(model, num_vars)
    /\ (dpll_pc = "done" /\ dpll_result = "SAT") => TotalModel(dpll_model, num_vars)

\* C6 witness: both engines answered SAT on NumVars variables and the
\* watched-literal engine stopped with a variable still unassigned
C6_Witness ==
    /\ pc = "done" /\ dpll_pc = "done" /\ result = "SAT" /\ dpll_result = "SAT"
    /\ num_vars = NumVars /\ clauses # <<>>
    /\ \E v \in 1..num_vars : assignment[v] = "None"
    /\ TotalModel(model, num_vars) /\ TotalModel(dpll_model, num_vars)

\* C7: if any clause of the input is empty, both solve_cnf functions return
\* UNSAT, whatever the other clauses are.
C7_EmptyClauseUnsat ==
    (pc = "done" /\ dpll_pc = "done" /\ \E c \in 1..Len(clauses) : clauses[c] = <<>>)
        => (result = "UNSAT" /\ model = <<>> /\ dpll_result = "UNSAT" /\ dpll_model = <<>>)

\* C7 witness: UNSAT from both engines on a list whose empty clause is not the
\* first clause and whose other clauses are satisfiable
C7_Witness ==
    /\ pc = "done" /\ dpll_pc = "done" /\ result = "UNSAT" /\ dpll_result = "UNSAT"
    /\ Len(clauses) >= 2 /\ clauses[1] # <<>>
    /\ \E c \in 1..Len(clauses) : clauses[c] = <<>>
    /\ Satisfiable(SelectSeq(clauses, LAMBDA c : c # <<>>), num_vars)

\* C8: on the empty clause list both solve_cnf functions return SAT with a
\* total model over 1..num_vars, for any num_vars >= 0, and no search step is
\* taken (no solver state is built, no decision made, no branch pushed).
C8_EmptyFormulaSat ==
    (pc = "done" /\ dpll_pc = "done" /\ clauses = <<>>) =>
        /\ result = "SAT" /\ TotalModel(model, num_vars)
        /\ dpll_result = "SAT" /\ TotalModel(dpll_model, num_vars)
        /\ decision_stack = <<>> /\ search_stack = <<>> /\ watched = <<>>
        /\ stack = <<>>

\* C8 witness: the empty list with NumVars variables, answered by both engines
C8_Witness ==
    /\ pc = "done" /\ dpll_pc = "done" /\ clauses = <<>> /\ num_vars = NumVars
    /\ result = "SAT" /\ dpll_result = "SAT"

\* the literals derivable by unit propagation: A plus every literal that is
\* the only one left in a clause whose other literals are false under A
RECURSIVE UnitClosure(_, _)
UnitClosure(cl, A) ==
    LET new == {l \in UNION {{cl[c][i] : i \in 1..Len(cl[c])} : c \in 1..Len(cl)} :
                  \E c \in 1..Len(cl) : \E i \in 1..Len(cl[c]) :
                      /\ cl[c][i] = l
                      /\ \A j \in (1..Len(cl[c])) \ {i} : -cl[c][j] \in A}
    IN IF new \subseteq A THEN A ELSE UnitClosure(cl, A \cup new)

Forced == UnitClosure(clauses, {})

\* C9: every literal derivable by unit propagation from the unit clauses is
\* true in a model returned with SAT; in SATSolver it sits on the trail at
\* level 0 from the initial propagation on, whatever is backtracked.
C9_ForcedLiterals ==
    /\ (pc = "done" /\ result = "SAT") => \A l \in Forced : model[Var(l)] = l
    /\ (pc \in {"loop", "conflict", "check"} \/ (pc = "done" /\ result = "SAT")) =>
          \A l \in Forced : \E i \in 1..Len(decision_stack) :
              decision_stack[i] = [var |-> Var(l), value |-> BoolVal(l > 0), level |-> 0]

\* C9 witness: SAT after a conflict flipped a decision, with a forced literal
\* still on the trail at level 0 and true in the model
C9_Witness ==
    /\ pc = "done" /\ result = "SAT" /\ Flipped
    /\ \E l \in Forced :
          /\ model[Var(l)] = l
          /\ \E i \in 1..Len(decision_stack) :
                decision_stack[i] = [var |-> Var(l), value |-> BoolVal(l > 0), level |-> 0]

\* C10: if solve_cnf returns UNSAT on a clause list, it returns UNSAT on the
\* list with one more clause over the same variables, inserted anywhere.
C10_UnsatStable ==
    (pc = "done" /\ base_result = "UNSAT") => result = "UNSAT"

\* C10 witness: the extended list has no unit or empty clause (the verdicts
\* come from the exhausted search) and the added three-literal clause is
\* neither first nor last
C10_Witness ==
    /\ pc = "done" /\ base_result = "UNSAT" /\ result = "UNSAT"
    /\ \A c \in 1..Len(clauses) : Len(clauses[c]) >= 2
    /\ \E c \in 2..(Len(clauses) - 1) : Len(clauses[c]) = 3

\* the literals of a clause, as a set
LitSet(clause) == {clause[i] : i \in 1..Len(clause)}

\* the nonzero cells <<r, c>> (from 0) of a square grid
Clues(grid) ==
    {rc \in (0..(Len(grid) - 1)) \X (0..(Len(grid) - 1)) : grid[rc[1] + 1][rc[2] + 1] # 0}

\* C11: for every accepted N x N grid to_cnf returns num_vars = N^3 and, for
\* every cell (r,c) holding a nonzero v, the unit clause [r*N*N + c*N + v];
\* for N > 1 these are the only unit clauses, one per clue.
C11_EncoderShape ==
    (enc_pc = "done" /\ enc_result = "ok") =>
        LET grid == ParseGrid(lines)
            N == Len(grid)
            units == {i \in 1..Len(enc_clauses) : Len(enc_clauses[i]) = 1}
        IN /\ enc_num_vars = N * N * N
           /\ \A rc \in Clues(grid) : \E i \in units :
                 enc_clauses[i] = <<rc[1] * N * N + rc[2] * N + grid[rc[1] + 1][rc[2] + 1]>>
           /\ N > 1 =>
                 /\ Cardinality(units) = Cardinality(Clues(grid))
                 /\ \A i \in units : \E rc \in Clues(grid) :
                       enc_clauses[i] = <<rc[1] * N * N + rc[2] * N + grid[rc[1] + 1][rc[2] + 1]>>

\* C11 witness: a 4 x 4 grid with two clues, not in the first row or column,
\* encoded into 64 variables
C11_Witness ==
    /\ enc_pc = "done" /\ enc_result = "ok" /\ enc_num_vars = 64
    /\ Cardinality(Clues(ParseGrid(lines))) = 2
    /\ \A rc \in Clues(ParseGrid(lines)) : rc[1] > 0 /\ rc[2] > 0
    /\ Cardinality({i \in 1..Len(enc_clauses) : Len(enc_clauses[i]) = 1}) = 2

\* C12: when a cell holds a value outside 0..N, to_cnf raises instead of
\* returning a clause set.
C12_OutOfRangeRejected ==
    (enc_pc = "done" /\ IsSquare(ParseGrid(lines))
        /\ \E r \in 1..Len(ParseGrid(lines)) : \E c \in 1..Len(ParseGrid(lines)) :
              ParseGrid(lines)[r][c] \notin 0..Len(ParseGrid(lines)))
        => (enc_result \in {"not_square", "not_perfect_square"} /\ enc_clauses = <<>>)

\* C13: to_cnf raises and returns no clauses when some row's length differs
\* from the number of rows N, or when N is not a perfect square.
C13_GridValidation ==
    enc_pc = "done" =>
        LET grid == ParseGrid(lines)
            N == Len(grid)
        IN /\ (\E r \in 1..N : Len(grid[r]) # N) =>
                 (enc_result = "not_square" /\ enc_clauses = <<>> /\ enc_num_vars = 0)
           /\ ((\A r \in 1..N : Len(grid[r]) = N) /\ ~(\E b \in 0..N : b * b = N)) =>
                 (enc_result = "not_perfect_square" /\ enc_clauses = <<>> /\ enc_num_vars = 0)

\* C13 witness: a file of three rows whose last row is short, after a blank
\* line, is refused
C13_Witness ==
    /\ enc_pc = "done" /\ enc_result = "not_square"
    /\ Len(lines) = 4 /\ lines[1] = <<>>
    /\ Len(lines[2]) = 3 /\ Len(lines[3]) = 3 /\ Len(lines[4]) = 2

\* the ordered pairs <<r, c, r2, c2>> of orthogonally adjacent cells of an
\* N x N grid
AdjacentCells(N) ==
    {q \in (0..(N - 1)) \X (0..(N - 1)) \X (0..(N - 1)) \X (0..(N - 1)) :
        \/ q[1] = q[3] /\ (q[2] - q[4] = 1 \/ q[4] - q[2] = 1)
        \/ q[2] = q[4] /\ (q[1] - q[3] = 1 \/ q[3] - q[1] = 1)}

\* the non-consecutive clauses of an N x N grid as sets of literals: a = v and
\* b = v + 1 excluded, for every ordered pair a, b of adjacent cells
NonConsecutiveSets(N) ==
    {{-(q[1] * N * N + q[2] * N + v), -(q[3] * N * N + q[4] * N + v + 1)} :
        q \in AdjacentCells(N), v \in 1..(N - 1)}

\* C15: for every unordered pair of orthogonally adjacent cells a, b and every
\* v in 1..N-1 the clauses [-var(a,v), -var(b,v+1)] and [-var(a,v+1), -var(b,v)]
\* are emitted exactly once each: 2(N-1) clauses per edge, 2N(N-1) * 2(N-1) in
\* all.  (The emitted non-consecutive clauses are as many as the distinct
\* clauses required and cover them all, so each occurs exactly once.)
C15_NonConsecutiveOnce ==
    (enc_pc = "done" /\ enc_result = "ok") =>
        LET N == Len(ParseGrid(lines))
            sets == NonConsecutiveSets(N)
            nc == SelectSeq(enc_clauses, LAMBDA cl : LitSet(cl) \in sets)
        IN /\ Len(nc) = 2 * N * (N - 1) * 2 * (N - 1)
           /\ \A i \in 1..Len(nc) : Len(nc[i]) = 2
           /\ Cardinality(sets) = Len(nc)
           /\ {LitSet(nc[i]) : i \in 1..Len(nc)} = sets

\* C15 witness: the 144 non-consecutive clauses of a 4 x 4 grid, the clause of
\* the last vertical edge for v = 3 among them
C15_Witness ==
    /\ enc_pc = "done" /\ enc_result = "ok" /\ Len(ParseGrid(lines)) = 4
    /\ Cardinality(NonConsecutiveSets(4)) = 144
    /\ \E i \in 1..Len(enc_clauses) : enc_clauses[i] = <<-(2 * 16 + 3 * 4 + 4), -(3 * 16 + 3 * 4 + 3)>>

\* the groups of an exactly-one family, each the set of its N variables:
\* family 1 the cells, 2 the row-value pairs, 3 the column-value pairs, 4 the
\* box-value pairs
FamilyGroups(fam, N) ==
    LET b == CHOOSE x \in 0..N : x * x = N
        V(r, c, v) == r * N * N + c * N + v
        I == 0..(N - 1)
    IN CASE fam = 1 -> {{V(r, c, v) : v \in 1..N} : r \in I, c \in I}
         [] fam = 2 -> {{V(r, c, v) : c \in I} : r \in I, v \in 1..N}
         [] fam = 3 -> {{V(r, c, v) : r \in I} : c \in I, v \in 1..N}
         [] fam = 4 -> {{V(rc[1], rc[2], v) :
                            rc \in {x \in I \X I : x[1] \div b = bb[1] /\ x[2] \div b = bb[2]}}
                          : bb \in (0..(b - 1)) \X (0..(b - 1)), v \in 1..N}

\* the clauses an exactly-one family needs, as sets of literals: every group,
\* and the two negations of every pair of a group
FamilySets(fam, N) ==
    FamilyGroups(fam, N)
        \cup UNION {{{-x[1], -x[2]} : x \in {y \in G \X G : y[1] # y[2]}} : G \in FamilyGroups(fam, N)}

\* C16: each of the four exactly-one families (cell, row-value, column-value,
\* box-value) has, for each of its N*N groups, one positive clause of the
\* group's N literals and one clause [-x,-y] per unordered pair, that is
\* N*N*(1 + N(N-1)/2) clauses; a grid with k clues gets
\* 4*N*N*(1 + N(N-1)/2) + 4N(N-1)^2 + k clauses.  (A family's stretch of the
\* clause list is as long as the number of distinct clauses the family needs
\* and covers them all, so each occurs exactly once in it.)
C16_ExactlyOneFamilies ==
    (enc_pc = "done" /\ enc_result = "ok") =>
        LET N == Len(ParseGrid(lines))
            size == N * N * (1 + (N * (N - 1)) \div 2)
        IN /\ Len(enc_clauses) = 4 * size + 4 * N * (N - 1) * (N - 1)
                                   + Cardinality(Clues(ParseGrid(lines)))
           /\ \A fam \in 1..4 :
                 LET seg == SubSeq(enc_clauses, (fam - 1) * size + 1, fam * size)
                     groups == FamilyGroups(fam, N)
                     sets == FamilySets(fam, N)
                     segsets == [i \in 1..size |-> LitSet(seg[i])]
                 IN /\ Cardinality(groups) = N * N
                    /\ \A G \in groups : Cardinality(G) = N
                    /\ \A i \in 1..size : Len(seg[i]) = Cardinality(segsets[i])
                    /\ Cardinality(sets) = size
                    /\ {segsets[i] : i \in 1..size} = sets

\* C16 witness: a 4 x 4 grid with two clues gets 4 * 112 + 144 + 2 clauses
C16_Witness ==
    /\ enc_pc = "done" /\ enc_result = "ok" /\ Len(ParseGrid(lines)) = 4
    /\ Cardinality(Clues(ParseGrid(lines))) = 2
    /\ Len(enc_clauses) = 594

\* the grid a model of the N x N encoding decodes to: each cell gets the value
\* whose literal the model makes true
Decode(m, N) ==
    [r \in 1..N |-> [c \in 1..N |->
        CHOOSE v \in 1..N : m[(r - 1) * N * N + (c - 1) * N + v] > 0]]

\* the N x N grid g has every row, column and box a permutation of 1..N and no
\* two orthogonally adjacent cells whose values differ by exactly 1
ValidGrid(g, N) ==
    LET b == CHOOSE x \in 0..N : x * x = N
    IN /\ \A r \in 1..N : {g[r][c] : c \in 1..N} = 1..N
       /\ \A c \in 1..N : {g[r][c] : r \in 1..N} = 1..N
       /\ \A br \in 0..(b - 1), bc \in 0..(b - 1) :
             {g[br * b + i][bc * b + j] : i \in 1..b, j \in 1..b} = 1..N
       /\ \A r \in 1..N, c \in 1..(N - 1) :
             g[r][c] - g[r][c + 1] \notin {1, -1}
       /\ \A r \in 1..(N - 1), c \in 1..N :
             g[r][c] - g[r + 1][c] \notin {1, -1}

\* all valid N x N grids, found by enumeration: the rows that are permutations
\* without consecutive neighbours, then every stacking of N of them
ValidGrids(N) ==
    LET rows == {s \in [1..N -> 1..N] :
                    /\ {s[c] : c \in 1..N} = 1..N
                    /\ \A c \in 1..(N - 1) : s[c] - s[c + 1] \notin {1, -1}}
    IN {g \in [1..N -> rows] : ValidGrid(g, N)}

\* the file of the 4 x 4 scenario: the only clue is 1 at (0,0)
Scenario4x4 == GridOf([r \in 1..4 |-> 4], {<<1, 1, 1>>})

\* C14 as stated: encoding the 4 x 4 grid whose only clue is (0,0)=1 and
\* solving it yields SAT, and the decoded grid obeys the Latin-square and
\* non-consecutive constraints.
C14_Original ==
    (lines = Scenario4x4 /\ pc = "done") =>
        (result = "SAT" /\ ValidGrid(Decode(model, 4), 4))

\* C14 amended: encoding the 4 x 4 grid whose only clue is (0,0)=1 and solving
\* it, with either solve_cnf, yields UNSAT with no model, and no 4 x 4 grid at
\* all obeys the Latin-square and non-consecutive constraints together.
C14_Scenario4x4 ==
    lines = Scenario4x4 =>
        /\ pc = "done" => (result = "UNSAT" /\ model = <<>> /\ ValidGrids(4) = {})
        /\ dpll_pc = "done" => (dpll_result = "UNSAT" /\ dpll_model = <<>>)

\* C14 witness: the scenario's 593 clauses over 64 variables were solved and
\* found unsatisfiable
C14_Witness ==
    /\ lines = Scenario4x4 /\ pc = "done" /\ result = "UNSAT"
    /\ dpll_pc = "done" /\ dpll_result = "UNSAT"
    /\ num_vars = 64 /\ Len(clauses) = 593
    /\ clauses[593] = <<1>>

\* the encodings whose total assignments are enumerated: those in which no
\* variable above EnumVars occurs
EnumVars == 2

\* C17: for any total assignment satisfying all clauses that to_cnf emits for
\* an N x N grid, each cell has exactly one true value literal, and the decoded
\* grid has every row, column and box a permutation of 1..N, agrees with the
\* clues, and has no two orthogonally adjacent cells differing by exactly 1.
C17_DecodeProperty ==
    (enc_pc = "done" /\ enc_result = "ok"
        /\ \A i \in 1..Len(enc_clauses) : \A j \in 1..Len(enc_clauses[i]) :
              enc_clauses[i][j] \in (-EnumVars)..EnumVars
        /\ enc_num_vars <= EnumVars) =>
        LET grid == ParseGrid(lines)
            N == Len(grid)
            K == IF \E i \in 1..Len(enc_clauses) : \E j \in 1..Len(enc_clauses[i]) :
                       enc_clauses[i][j] > enc_num_vars \/ -enc_clauses[i][j] > enc_num_vars
                 THEN EnumVars ELSE enc_num_vars
        IN \A a \in [1..K -> BOOLEAN] :
              (\A i \in 1..Len(enc_clauses) : \E j \in 1..Len(enc_clauses[i]) :
                    \/ enc_clauses[i][j] > 0 /\ a[enc_clauses[i][j]]
                    \/ enc_clauses[i][j] < 0 /\ ~a[-enc_clauses[i][j]])
              => /\ \A r \in 0..(N - 1), c \in 0..(N - 1) :
                       Cardinality({v \in 1..N : a[r * N * N + c * N + v]}) = 1
                 /\ LET g == Decode([k \in 1..K |-> IF a[k] THEN k ELSE -k], N)
                    IN /\ ValidGrid(g, N)
                       /\ \A rc \in Clues(grid) :
                             g[rc[1] + 1][rc[2] + 1] = grid[rc[1] + 1][rc[2] + 1]

\* C18: the model SATSolver.solve returns reflects the assignment at the
\* moment of termination: +v for the variables that are True, -v for those
\* that are False (and for no others), and +v for every variable still
\* unassigned.
C18_ModelReflectsAssignment ==
    (pc = "done" /\ result = "SAT" /\ clauses # <<>>) =>
        /\ Len(model) = num_vars
        /\ DOMAIN assignment = 1..num_vars
        /\ \A v \in 1..num_vars :
              /\ assignment[v] = "True" => model[v] = v
              /\ assignment[v] = "False" => model[v] = -v
              /\ assignment[v] = "None" => model[v] = v
              /\ model[v] = -v => assignment[v] = "False"

\* C18 witness: solve ended with SAT while one variable is True, one False and
\* one still unassigned
C18_Witness ==
    /\ pc = "done" /\ result = "SAT" /\ clauses # <<>>
    /\ \E t \in 1..num_vars, f \in 1..num_vars, u \in 1..num_vars :
          /\ assignment[t] = "True" /\ model[t] = t
          /\ assignment[f] = "False" /\ model[f] = -f
          /\ assignment[u] = "None" /\ model[u] = u

\* the position in the search stack of the most recent decision whose second
\* polarity is untried
LastUntried ==
    CHOOSE k \in 1..Len(search_stack) :
        /\ ~search_stack[k].tried_negative
        /\ \A j \in (k + 1)..Len(search_stack) : search_stack[j].tried_negative

\* C19: when _propagate reported a conflict and the search stack holds a
\* decision d whose second polarity is untried (the most recent such, at
\* position k = its level), conflict handling pops all later decisions, leaves
\* d on top marked both-tried, unassigns and removes from the trail every
\* variable assigned at level k or above, keeps the trail entries of lower
\* levels in order, leaves exactly -d in the propagation queue and sets the
\* decision level to k.
C19_ConflictPostState ==
    [][(pc = "conflict" /\ \E k \in 1..Len(search_stack) : ~search_stack[k].tried_negative) =>
          LET k == LastUntried
              d == search_stack[k].lit
          IN /\ pc' = "loop"
             /\ search_stack' = Append(SubSeq(search_stack, 1, k - 1),
                                       [lit |-> d, tried_negative |-> TRUE])
             /\ \A i \in 1..Len(decision_stack) :
                   decision_stack[i].level >= k =>
                      /\ assignment'[decision_stack[i].var] = "None"
                      /\ \A j \in 1..Len(decision_stack') :
                            decision_stack'[j].var # decision_stack[i].var
             /\ decision_stack' = SelectSeq(decision_stack, LAMBDA e : e.level < k)
             /\ \A v \in 1..num_vars :
                   (\A i \in 1..Len(decision_stack) :
                       decision_stack[i].var = v => decision_stack[i].level < k)
                   => assignment'[v] = assignment[v]
             /\ propagation_queue' = <<-d>>
             /\ decision_level' = k]_vars

\* C19 witness: after a conflict under two decisions the second one is back on
\* top marked both-tried, its negation alone in the queue, and the trail holds
\* only entries of the levels below, the first decision's among them
C19_Witness ==
    /\ pc = "loop" /\ Len(search_stack) = 2
    /\ search_stack[2].tried_negative /\ ~search_stack[1].tried_negative
    /\ propagation_queue = <<-search_stack[2].lit>>
    /\ decision_level = 2
    /\ assignment[search_stack[2].lit] = "None"
    /\ \E i \in 1..Len(decision_stack) :
          decision_stack[i].var = search_stack[1].lit /\ decision_stack[i].level = 1
    /\ \A i \in 1..Len(decision_stack) : decision_stack[i].level < 2

\* _propagate has just returned True: at the completion test of the main
\* loop, after the initial propagation, or at a SAT return
Quiescent ==
    \/ pc = "check"
    \/ pc = "loop" /\ propagation_queue = <<>>
    \/ pc = "done" /\ result = "SAT" /\ clauses # <<>>

\* C20: whenever _propagate has returned True, no clause has all its literals
\* false, no unsatisfied clause has exactly one unassigned literal, and every
\* clause with a false watched literal has a true literal; also after
\* backtracks.
C20_PropagationComplete ==
    Quiescent =>
        \A c \in 1..Len(clauses) :
            LET value(i) == LiteralValue(assignment, clauses[c][i])
                satisfied == \E i \in 1..Len(clauses[c]) : value(i) = "True"
                open == {i \in 1..Len(clauses[c]) : value(i) = "None"}
            IN /\ \E i \in 1..Len(clauses[c]) : value(i) # "False"
               /\ ~satisfied => Cardinality(open) # 1
               /\ (\E w \in 1..Len(watched[c]) :
                      LiteralValue(assignment, watched[c][w]) = "False") => satisfied

\* C20 witness: _propagate returned True after a backtrack (the top decision
\* is in its second polarity) with a clause whose watched literal is false and
\* which a true literal satisfies
C20_Witness ==
    /\ pc = "check"
    /\ search_stack # <<>> /\ search_stack[Len(search_stack)].tried_negative
    /\ \E c \in 1..Len(clauses) :
          /\ \E w \in 1..Len(watched[c]) :
                LiteralValue(assignment, watched[c][w]) = "False"
          /\ \E i \in 1..Len(clauses[c]) :
                LiteralValue(assignment, clauses[c][i]) = "True"
    /\ \E v \in 1..num_vars : assignment[v] = "None"

\* C21: in every state of a constructed solver each clause of length >= 2 has
\* exactly two watched literals, distinct and both literals of the clause (a
\* unit clause has its one literal), and the per-literal index agrees: clause c
\* occurs in watch_list[l] once when l is in watched[c] and not at all
\* otherwise; so no move of a watch changes the number of watches.
C21_WatchStructure ==
    watched # <<>> =>
        /\ DOMAIN watched = 1..Len(clauses)
        /\ \A c \in 1..Len(clauses) :
              /\ Len(clauses[c]) >= 2 =>
                    /\ Len(watched[c]) = 2
                    /\ watched[c][1] # watched[c][2]
              /\ Len(clauses[c]) = 1 => Len(watched[c]) = 1
              /\ \A w \in 1..Len(watched[c]) : watched[c][w] \in LitSet(clauses[c])
              /\ \A l \in Lits(num_vars) :
                    CountOcc(watch_list[l], c) = IF InSeq(watched[c], l) THEN 1 ELSE 0

\* C21 witness: a clause of three literals whose watches have both moved off
\* its first literal, the index following
C21_Witness ==
    /\ pc \in {"loop", "check", "conflict"}
    /\ \E c \in 1..Len(clauses) :
          /\ Len(clauses[c]) = 3
          /\ ~InSeq(watched[c], clauses[c][1])
          /\ InSeq(watch_list[clauses[c][3]], c)
          /\ ~InSeq(watch_list[clauses[c][1]], c)

\* C22: in every state assignment[v] is set if and only if the trail
\* (decision_stack) has an entry for v; a variable has at most one entry, and
\* the entry's value is assignment[v].
C22_AssignmentTrail ==
    /\ \A v \in DOMAIN assignment :
          assignment[v] # "None" <=> \E i \in 1..Len(decision_stack) : decision_stack[i].var = v
    /\ \A i \in 1..Len(decision_stack) :
          /\ decision_stack[i].var \in DOMAIN assignment
          /\ decision_stack[i].value = assignment[decision_stack[i].var]
          /\ \A j \in 1..Len(decision_stack) :
                decision_stack[j].var = decision_stack[i].var => j = i

\* C22 witness: after a backtrack (the top decision is in its second polarity)
\* the trail holds a True and a False entry and a variable is unassigned
C22_Witness ==
    /\ pc = "check"
    /\ search_stack # <<>> /\ search_stack[Len(search_stack)].tried_negative
    /\ \E i \in 1..Len(decision_stack), j \in 1..Len(decision_stack) :
          decision_stack[i].value = "True" /\ decision_stack[j].value = "False"
    /\ \E v \in 1..num_vars : assignment[v] = "None"

\* the levels along the trail never decrease from bottom to top
LevelsNonDecreasing(trail) ==
    \A i \in 1..(Len(trail) - 1) : trail[i].level <= trail[i + 1].level

\* C23: in every state the levels recorded along the trail are non-decreasing
\* from bottom to top, and conflict handling removes entries only from the top:
\* what remains is a prefix of the trail with no entry above the level
\* _backtrack was last called with (the number of decisions below the flipped
\* one, or 0 when the stack ran empty).
C23_TrailLevels ==
    /\ [](LevelsNonDecreasing(decision_stack))
    /\ [][(pc = "conflict" /\ search_stack # <<>>) =>
             LET target == IF search_stack' = <<>> THEN 0 ELSE Len(search_stack') - 1
             IN /\ Len(decision_stack') <= Len(decision_stack)
                /\ decision_stack' = SubSeq(decision_stack, 1, Len(decision_stack'))
                /\ \A i \in 1..Len(decision_stack') : decision_stack'[i].level <= target
                /\ \A i \in (Len(decision_stack') + 1)..Len(decision_stack) :
                      decision_stack[i].level > target]_vars

\* C23 witness: after a backtrack and the propagation of the flipped literal
\* the trail holds entries of level 0 below entries of level 1
C23_Witness ==
    /\ pc = "check"
    /\ Len(search_stack) = 1 /\ search_stack[1].tried_negative
    /\ Len(decision_stack) >= 3
    /\ decision_stack[1].level = 0
    /\ decision_stack[Len(decision_stack)].level = 1
    /\ LevelsNonDecreasing(decision_stack)

\* C24 as stated: whenever SATSolver.solve returns UNSAT, the conflict that
\* triggered the return was detected while the decision level was 0, with no
\* decision on the search stack.
C24_Original ==
    [][(pc \in {"solve", "conflict"} /\ result' = "UNSAT") =>
          (decision_level = 0 /\ search_stack = <<>>)]_vars

\* C24 amended: whenever SATSolver.solve returns UNSAT, the conflict that
\* triggered the return was detected while the decision level was 0 (no
\* decision on the search stack) or while every decision on the search stack
\* had already been tried in both polarities.
C24_UnsatOnlyWhenExhausted ==
    [][(pc \in {"solve", "conflict"} /\ result' = "UNSAT") =>
          \/ decision_level = 0 /\ search_stack = <<>>
          \/ /\ decision_level = Len(search_stack)
             /\ \A k \in 1..Len(search_stack) : search_stack[k].tried_negative]_vars

\* C24 witness: solve returned UNSAT after backtracking: the trail is empty
\* again, which it never is when the initial propagation fails
C24_Witness ==
    /\ pc = "done" /\ result = "UNSAT"
    /\ clauses # <<>> /\ ~HasEmptyClause(clauses)
    /\ decision_stack = <<>> /\ search_stack = <<>> /\ decision_level = 0

\* C25: when the DLIS tally selects the literal l as most frequent, the
\* decision enqueues l itself and records l on the search stack, so that a
\* negative l = -x makes x = False the first polarity tried.
C25_DecidesChosenPolarity ==
    [][(pc = "check" /\ ~AllVarsAssigned(assignment, num_vars)
          /\ DlisBestLit(clauses, assignment, satisfied_clauses) # 0) =>
          LET l == DlisBestLit(clauses, assignment, satisfied_clauses)
          IN /\ propagation_queue' = Append(propagation_queue, l)
             /\ search_stack' = Append(search_stack, [lit |-> l, tried_negative |-> FALSE])]_vars

\* C26: whenever the queue has drained without conflict and a variable is
\* still unassigned, _select_variable_dlis returns an unassigned variable and a
\* decision is pushed; solve does not return SAT through the None fallback, so
\* SAT is returned only when every variable is assigned.
C26_DecidesWhileUnassigned ==
    [][(pc = "check" /\ ~AllVarsAssigned(assignment, num_vars)) =>
          /\ pc' = "loop" /\ result' # "SAT"
          /\ Len(search_stack') = Len(search_stack) + 1
          /\ assignment[search_stack'[Len(search_stack')].lit] = "None"]_vars

\* C27: in every state each clause index in satisfied_clauses denotes a
\* clause with at least one literal true under the current assignment; a
\* backtrack leaves no entry whose witnessing assignment was undone.
C27_CacheValid ==
    \A c \in satisfied_clauses :
        /\ c \in 1..Len(clauses)
        /\ \E i \in 1..Len(clauses[c]) : LiteralValue(assignment, clauses[c][i]) = "True"

\* C27 witness: after a backtrack the cache has been refilled with a clause
\* that the flipped decision satisfies, while another clause is not cached
C27_Witness ==
    /\ pc \in {"check", "loop"}
    /\ search_stack # <<>> /\ search_stack[Len(search_stack)].tried_negative
    /\ \E c \in satisfied_clauses :
          InSeq(clauses[c], -search_stack[Len(search_stack)].lit)
    /\ \E c \in 1..Len(clauses) : c \notin satisfied_clauses

\* the literal a trail entry made true
TrailLit(e) == IF e.value = "True" THEN e.var ELSE -e.var

\* the watched literal of clause c other than -lit
OtherWatch(c, lit) ==
    IF watched[c][1] = -lit THEN watched[c][Len(watched[c])] ELSE watched[c][1]

\* clause c, met while the clauses watching -lit are scanned under asg, implies
\* its other watched literal: it has no true literal, none of its unwatched
\* literals can take over the watch, and the other watched literal is unassigned
ImpliesOnScan(c, lit, asg) ==
    /\ Len(watched[c]) = 2
    /\ \A i \in 1..Len(clauses[c]) : LiteralValue(asg, clauses[c][i]) # "True"
    /\ \A i \in 1..Len(clauses[c]) :
          ~InSeq(watched[c], clauses[c][i]) => LiteralValue(asg, clauses[c][i]) = "False"
    /\ LiteralValue(asg, OtherWatch(c, lit)) = "None"

\* the literals implied by the scan that follows the assignment of lit, in the
\* order their clauses stand in the watch list of -lit
ScannedImplied(lit, asg) ==
    LET implying == SelectSeq(watch_list[-lit], LAMBDA c : ImpliesOnScan(c, lit, asg))
    IN [k \in 1..Len(implying) |-> OtherWatch(implying[k], lit)]

\* one pass of the while loop of _propagate serves the queue first in, first
\* out: the literal assigned is the head of the queue (the trail grows by it
\* alone, and only if it was unassigned), the rest of the queue keeps its order
\* at the front, and the literals implied by the scan join at the back in the
\* order their clauses were scanned (all of them when the pass succeeds, those
\* met before the conflict when it fails)
QueueServedInOrder ==
    LET q == propagation_queue
        lit == Head(q)
        implied == ScannedImplied(lit, assignment')
    IN /\ decision_stack' =
             (IF assignment[Var(lit)] = "None"
              THEN Append(decision_stack, [var |-> Var(lit), value |-> BoolVal(lit > 0),
                                           level |-> decision_level])
              ELSE decision_stack)
       /\ (assignment[Var(lit)] = "None") => LiteralValue(assignment', lit) = "True"
       /\ \A v \in 1..num_vars : v # Var(lit) => assignment'[v] = assignment[v]
       /\ IF pc' = pc
          THEN propagation_queue' = Tail(q) \o implied
          ELSE \E k \in 0..Len(implied) :
                  propagation_queue' = Tail(q) \o SubSeq(implied, 1, k)

\* C28: propagation is FIFO.  The queue starts as the literals of the unit
\* clauses in clause order; every pass of _propagate dequeues and assigns the
\* head of the queue and enqueues the implied literals at the back in the
\* order their clauses were scanned, so literals are assigned in the order
\* they were enqueued; a decision joins at the back; after a conflict nothing
\* enqueued before it is left in the queue (it is empty, or holds the flipped
\* decision alone).
C28_FifoPropagation ==
    /\ [][(pc = "start" /\ pc' = "solve") =>
             (LET units == SelectSeq(clauses, LAMBDA c : Len(c) = 1)
              IN propagation_queue' = [k \in 1..Len(units) |-> units[k][1]])]_vars
    /\ [][((pc \in {"solve", "loop"}) /\ propagation_queue # <<>>) => QueueServedInOrder]_vars
    /\ [][(pc = "check" /\ pc' = "loop") =>
             (/\ Len(propagation_queue') = Len(propagation_queue) + 1
              /\ SubSeq(propagation_queue', 1, Len(propagation_queue)) = propagation_queue)]_vars
    /\ [][(pc = "conflict") =>
             (propagation_queue' = <<>>
                \/ (search_stack' # <<>>
                      /\ propagation_queue' = <<-search_stack'[Len(search_stack')].lit>>))]_vars

\* C28 witness: inside _propagate, after a decision, two literals implied by
\* the scan of the decision's assignment were assigned in the order their
\* clauses stand in the watch list
C28_Witness ==
    /\ pc = "loop" /\ search_stack # <<>>
    /\ Len(decision_stack) >= 3
    /\ LET n == Len(decision_stack)
           p == TrailLit(decision_stack[n - 2])
           x == TrailLit(decision_stack[n - 1])
           y == TrailLit(decision_stack[n])
       IN \E i \in 1..Len(watch_list[-p]), j \in 1..Len(watch_list[-p]) :
             /\ i < j
             /\ watched[watch_list[-p][i]] \in {<<-p, x>>, <<x, -p>>}
             /\ watched[watch_list[-p][j]] \in {<<-p, y>>, <<y, -p>>}
             /\ \A c \in 1..Len(clauses) : clauses[c] \notin {<<x>>, <<y>>}

\* the positions <<c, i>> of the unassigned literals of the clauses that have
\* no true literal under a and the fewest unassigned literals (at least one)
ShortestOpenPositions(a) ==
    LET open(c) == {i \in 1..Len(clauses[c]) : a[Var(clauses[c][i])] = "None"}
        live == {c \in 1..Len(clauses) :
                    /\ open(c) # {}
                    /\ \A i \in 1..Len(clauses[c]) : LiteralValue(a, clauses[c][i]) # "True"}
        shortest == {c \in live : \A d \in live : Cardinality(open(c)) <= Cardinality(open(d))}
    IN {p \in shortest \X (1..MaxClauseLen) : p[2] \in open(p[1])}

\* l is the literal MOM branching has to pick under a: no literal occurs more
\* often at the positions P, and each one occurring as often is first met,
\* in clause order, after l
MomChoice(a, l) ==
    LET P == ShortestOpenPositions(a)
        at(k) == {p \in P : clauses[p[1]][p[2]] = k}
        before(p, q) == p[1] < q[1] \/ (p[1] = q[1] /\ p[2] < q[2])
    IN /\ at(l) # {}
       /\ a[Var(l)] = "None"
       /\ \A k \in Lits(num_vars) :
             /\ Cardinality(at(k)) <= Cardinality(at(l))
             /\ (k # l /\ Cardinality(at(k)) = Cardinality(at(l))) =>
                   \E p \in at(l) : \A q \in at(k) : before(p, q)

\* C29: whenever dpll_iterative branches, the two assignments pushed differ in
\* one variable, unassigned before; the one on top (explored first) makes true
\* the literal that occurs most often among the unassigned literals of the
\* unsatisfied clauses with the fewest unassigned literals, ties going to the
\* literal met first in clause order, and the one below makes it false.  An
\* iteration that neither backtracks nor branches returns with every clause
\* satisfied, so no call of choose_branch_literal comes back without a literal.
C29_MomBranching ==
    /\ [][(dpll_pc = "loop" /\ dpll_result' = "SAT") =>
             (\A c \in 1..Len(clauses) : \E i \in 1..Len(clauses[c]) :
                 LiteralValue(dpll_assignment', clauses[c][i]) = "True")]_vars
    /\ [][(dpll_pc = "loop" /\ stack # <<>> /\ Len(stack') = Len(stack) + 1) =>
          LET first == stack'[Len(stack')]
              second == stack'[Len(stack') - 1]
          IN \E x \in 1..num_vars :
                LET l == IF first[x] = "True" THEN x ELSE -x
                    parent == [first EXCEPT ![x] = "None"]
                IN /\ first[x] \in {"True", "False"}
                   /\ second = [first EXCEPT ![x] = BoolVal(first[x] # "True")]
                   /\ SubSeq(stack', 1, Len(stack) - 1) = SubSeq(stack, 1, Len(stack) - 1)
                   /\ \A v \in 1..num_vars :
                         stack[Len(stack)][v] # "None" => parent[v] = stack[Len(stack)][v]
                   /\ MomChoice(parent, l)]_vars

\* C29 witness: a branch on a negative literal: the assignment on top of the
\* stack makes the variable false, the one below it true, and another variable
\* is still unassigned
C29_Witness ==
    /\ dpll_pc = "loop" /\ Len(stack) >= 2
    /\ \E x \in 1..num_vars :
          /\ stack[Len(stack)][x] = "False"
          /\ stack[Len(stack) - 1] = [stack[Len(stack)] EXCEPT ![x] = "True"]
          /\ MomChoice([stack[Len(stack)] EXCEPT ![x] = "None"], -x)
    /\ \E y \in 1..num_vars : stack[Len(stack)][y] = "None"

\* C30: at every call of _propagate inside solve decision_level equals the
\* number of entries on search_stack and every trail entry has a level between
\* 0 and that number; every literal the call assigns, the decision or its flip
\* and what they imply, is recorded at that level.
C30_LevelIsDepth ==
    /\ []((pc \in {"solve", "loop"}) =>
             (/\ decision_level = Len(search_stack)
              /\ \A i \in 1..Len(decision_stack) :
                    decision_stack[i].level \in 0..Len(search_stack)))
    /\ [][(pc \in {"solve", "loop"}) =>
             (/\ search_stack' = search_stack
              /\ decision_level' = decision_level
              /\ \A i \in (Len(decision_stack) + 1)..Len(decision_stack') :
                    decision_stack'[i].level = Len(search_stack))]_vars

\* C30 witness: _propagate has run for a flipped decision: below it the trail
\* holds a level-0 entry, and the flipped literal and a literal it implied both
\* sit at level 1, the number of decisions
C30_Witness ==
    /\ pc = "check" /\ Len(search_stack) = 1 /\ decision_level = 1
    /\ search_stack[1].tried_negative
    /\ Len(decision_stack) = 3
    /\ decision_stack[1].level = 0
    /\ decision_stack[2].level = 1 /\ decision_stack[3].level = 1
    /\ TrailLit(decision_stack[2]) = -search_stack[1].lit

=============================================================================
